---- MODULE Spec2Model ----
(***************************************************************************)
(* Model of package gzap's logging configuration (src/config.go): the two  *)
(* implementations of the Config interface, EnvConfig (backed by the       *)
(* process environment) and CfgConfig (backed by a record).                *)
(*                                                                         *)
(* Go strings are sequences of one-character strings, so that the numeric  *)
(* parsers work on them digit by digit.  An unsigned integer is a pair of  *)
(* 16-bit halves [hi, lo] (value hi * 2^16 + lo), which keeps the 32-bit   *)
(* range of strconv.ParseUint(s, 10, 32) exact.  A duration is a number of *)
(* whole seconds (time.Second is the unit).                                *)
(***************************************************************************)
EXTENDS Integers, Sequences, FiniteSets, TLC

VARIABLES env, cfg, flags, last

vars == <<env, cfg, flags, last>>

----------------------------------------------------------------------------
(* String literals of the source. *)

Empty == << >>

tlsTransport == <<"t", "l", "s">>

graylogUDP == <<"u", "d", "p">>

graylogTCP == <<"t", "c", "p">>

StrTrue == <<"t", "r", "u", "e">>

StrZero == <<"0">>

StrPracing == <<"p", "r", "a", "c", "i", "n", "g">>

StrLocalhost == <<"1", "2", "7", ".", "0", ".", "0", ".", "1">>

StrDefaultPort == <<"1", "2", "2", "0", "1">>

StrThree == <<"3">>

----------------------------------------------------------------------------
(* Unsigned integers as two 16-bit halves. *)

Half == 2 ^ 16

U(n) == [hi |-> n \div Half, lo |-> n % Half]

MaxUint32 == [hi |-> Half - 1, lo |-> Half - 1]

----------------------------------------------------------------------------
(* strconv *)

Digits == {"0", "1", "2", "3", "4", "5", "6", "7", "8", "9"}

DigitVal(c) ==
    CASE c = "0" -> 0 [] c = "1" -> 1 [] c = "2" -> 2 [] c = "3" -> 3
      [] c = "4" -> 4 [] c = "5" -> 5 [] c = "6" -> 6 [] c = "7" -> 7
      [] c = "8" -> 8 [] c = "9" -> 9

RECURSIVE ParseUintFrom(_, _, _)
(* The digit loop of ParseUint in base 10 with bitSize 32: a byte that is  *)
(* no decimal digit is a syntax error; n*10 + d above 2^32 - 1 is a range  *)
(* error, reported with the value 2^32 - 1.                                *)
ParseUintFrom(s, i, n) ==
    IF i > Len(s) THEN [err |-> "nil", val |-> n]
    ELSE IF s[i] \notin Digits THEN [err |-> "syntax", val |-> U(0)]
    ELSE LET lo10 == n.lo * 10 + DigitVal(s[i])
             hi10 == n.hi * 10 + (lo10 \div Half)
         IN  IF hi10 >= Half THEN [err |-> "range", val |-> MaxUint32]
             ELSE ParseUintFrom(s, i + 1, [hi |-> hi10, lo |-> lo10 % Half])

ParseUint32(s) ==
    IF s = Empty THEN [err |-> "syntax", val |-> U(0)]
    ELSE ParseUintFrom(s, 1, U(0))

(* ParseInt in base 10 with bitSize 32: an optional sign, then ParseUint;  *)
(* the magnitude must be below 2^31, or at most 2^31 after a minus sign.   *)
ParseInt32(s) ==
    IF s = Empty THEN [err |-> "syntax", val |-> 0]
    ELSE LET neg  == s[1] = "-"
             rest == IF s[1] \in {"+", "-"} THEN Tail(s) ELSE s
             un   == ParseUint32(rest)
             cut  == Half \div 2
         IN  IF un.err = "syntax" THEN [err |-> "syntax", val |-> 0]
             ELSE IF ~neg /\ un.val.hi >= cut THEN [err |-> "range", val |-> 0]
             ELSE IF neg /\ (un.val.hi > cut \/ (un.val.hi = cut /\ un.val.lo > 0))
                  THEN [err |-> "range", val |-> 0]
             ELSE [err |-> "nil",
                   val |-> IF neg THEN (0 - un.val.hi) * Half - un.val.lo
                           ELSE un.val.hi * Half + un.val.lo]

----------------------------------------------------------------------------
(* Outcomes of a query: a returned value, or a panic with its message. *)

Ret(v) == [kind |-> "ret", val |-> v]

Panic(m, a) == [kind |-> "panic", msg |-> m, arg |-> a]

NoCall == [impl |-> "none", query |-> "none", out |-> [kind |-> "none"]]

----------------------------------------------------------------------------
(* The process environment: a function from the names that are set to     *)
(* their values.  os.Getenv gives the empty string for a name not set.    *)
(* last holds the outcome of the operation just made: a query's outcome,  *)
(* or NoCall after an operation that returns nothing.                     *)

InitEnv == [k \in {} |-> Empty]

(* Faulty variant: the environment as it stood at start, whatever was set since. *)
GetenvAtStart(k) == IF k \in DOMAIN InitEnv THEN InitEnv[k] ELSE Empty

Getenv(k) == IF k \in DOMAIN env THEN env[k] ELSE Empty

Setenv(k, v) ==
    /\ env' = [x \in DOMAIN env \cup {k} |-> IF x = k THEN v ELSE env[x]]
    /\ last' = NoCall
    /\ UNCHANGED <<cfg, flags>>

Unsetenv(k) ==
    /\ k \in DOMAIN env
    /\ env' = [x \in DOMAIN env \ {k} |-> env[x]]
    /\ last' = NoCall
    /\ UNCHANGED <<cfg, flags>>

(* flag.Lookup(name) != nil *)
FlagLookup(name) == name \in flags

(* A flag set registers a flag once; the testing package registers test.v. *)
FlagVar(name) ==
    /\ name \notin flags
    /\ flags' = flags \cup {name}
    /\ last' = NoCall
    /\ UNCHANGED <<env, cfg>>

----------------------------------------------------------------------------
(* EnvConfig: every query reads the process environment. *)

EnvEnableJSONFormatter ==
    LET jsonFormatter == Getenv("ENABLE_DATADOG_JSON_FORMATTER")
    IN  IF jsonFormatter = StrTrue THEN Ret(TRUE) ELSE Ret(FALSE)

EnvGetGraylogAppName ==
    LET appName == Getenv("GRAYLOG_APP_NAME")
    IN  IF appName = Empty THEN Panic("GRAYLOG_APP_NAME env not set", Empty)
        ELSE Ret(appName)

(* Faulty variant: every selector other than "udp" gives graylog.TCP. *)
EnvHandlerTypeDefaultTCP ==
    LET handlerType == Getenv("GRAYLOG_HANDLER_TYPE")
    IN  IF handlerType = graylogUDP THEN graylogUDP ELSE graylogTCP

(* The transport getGraylogHandlerType returns (it never panics). *)
EnvHandlerType ==
    LET defaultHandlerType == tlsTransport
        handlerType == Getenv("GRAYLOG_HANDLER_TYPE")
        t1 == IF handlerType = tlsTransport THEN graylogTCP ELSE Empty
        t2 == IF handlerType = graylogUDP THEN graylogUDP ELSE t1
        transportType == IF t2 = Empty THEN defaultHandlerType ELSE t2
    IN  transportType

EnvGetGraylogHandlerType == Ret(EnvHandlerType)

EnvGetGraylogHost == Ret(Getenv("GRAYLOG_HOST"))

(* Faulty variant: the two port variables read the wrong way round. *)
EnvGetGraylogPortSwapped ==
    LET p1 == IF EnvHandlerType = graylogUDP THEN Getenv("GRAYLOG_TLS_PORT")
              ELSE StrDefaultPort
        portString == IF EnvHandlerType = graylogTCP THEN Getenv("GRAYLOG_UDP_PORT")
                      ELSE p1
        r == ParseUint32(portString)
    IN  IF r.err # "nil"
        THEN Panic("could not properly parse Graylog port: %s", portString)
        ELSE Ret(r.val)

EnvGetGraylogPort ==
    LET p0 == StrDefaultPort
        p1 == IF EnvHandlerType = graylogUDP THEN Getenv("GRAYLOG_UDP_PORT") ELSE p0
        portString == IF EnvHandlerType = graylogTCP THEN Getenv("GRAYLOG_TLS_PORT")
                      ELSE p1
        r == ParseUint32(portString)
    IN  IF r.err # "nil"
        THEN Panic("could not properly parse Graylog port: %s", portString)
        ELSE Ret(r.val)

EnvGetGraylogLogLevel ==
    LET s == Getenv("GRAYLOG_LOG_LEVEL")
        r == ParseUint32(s)
    IN  IF r.err # "nil"
        THEN Panic("could not properly parse Graylog LogLevel: %s", s)
        ELSE Ret(r.val)

EnvGetGraylogTLSTimeout ==
    LET defaultTimeout == 3
        timeoutString == Getenv("GRAYLOG_TLS_TIMEOUT_SECS")
        r == ParseInt32(timeoutString)
    IN  IF timeoutString = Empty THEN Ret(defaultTimeout)
        ELSE IF r.err # "nil"
        THEN Panic("invalid GRAYLOG_TLS_TIMEOUT_SECS could not parse int", Empty)
        ELSE Ret(r.val)

EnvGetGraylogLogEnvName ==
    LET envName == Getenv("GRAYLOG_ENV")
    IN  IF envName = Empty THEN Panic("GRAYLOG_ENV not set", Empty)
        ELSE Ret(envName)

EnvGetGraylogSkipInsecureSkipVerify ==
    LET skipInsecure == Getenv("GRAYLOG_SKIP_TLS_VERIFY")
    IN  IF skipInsecure = StrTrue THEN Ret(TRUE) ELSE Ret(FALSE)

EnvGetIsTestEnv == IF FlagLookup("test.v") THEN Ret(TRUE) ELSE Ret(FALSE)

EnvUseTLS ==
    LET handlerType == Getenv("GRAYLOG_HANDLER_TYPE")
    IN  IF handlerType = Empty THEN Panic("GRAYLOG_HANDLER_TYPE env not set", Empty)
        ELSE IF handlerType = tlsTransport THEN Ret(TRUE)
        ELSE Ret(FALSE)

EnvUseColoredConsolelogs ==
    LET envLevel == Getenv("THEMUSE_ENV_LEVEL")
    IN  IF envLevel = StrZero THEN Ret(TRUE) ELSE Ret(FALSE)

----------------------------------------------------------------------------
(* CfgConfig: every query reads the record. *)

(* Faulty variant: the ports set to 12201, the default port of EnvConfig. *)
NewDefaultCfgConfigEnvPort ==
    [EnableJSONFormatter |-> TRUE,
     AppName             |-> StrPracing,
     EnvName             |-> StrPracing,
     HanlderType         |-> graylogUDP,
     Host                |-> StrLocalhost,
     UDPPort             |-> U(12201),
     TLSPort             |-> U(12201),
     TLSTimeoutSeconds   |-> StrThree,
     LogLevel            |-> U(4)]

NewDefaultCfgConfig ==
    [EnableJSONFormatter |-> TRUE,
     AppName             |-> StrPracing,
     EnvName             |-> StrPracing,
     HanlderType         |-> graylogUDP,
     Host                |-> StrLocalhost,
     UDPPort             |-> U(12001),
     TLSPort             |-> U(12001),
     TLSTimeoutSeconds   |-> StrThree,
     LogLevel            |-> U(4)]

CfgEnableJSONFormatter == Ret(cfg.EnableJSONFormatter)

CfgGetGraylogAppName == Ret(cfg.AppName)

CfgHandlerType ==
    LET defaultHandlerType == tlsTransport
        handlerType == cfg.HanlderType
        t1 == IF handlerType = tlsTransport THEN graylogTCP ELSE Empty
        t2 == IF handlerType = graylogUDP THEN graylogUDP ELSE t1
        transportType == IF t2 = Empty THEN defaultHandlerType ELSE t2
    IN  transportType

CfgGetGraylogHandlerType == Ret(CfgHandlerType)

CfgGetGraylogHost == Ret(cfg.Host)

CfgGetGraylogPort ==
    IF CfgHandlerType = graylogUDP THEN Ret(cfg.UDPPort)
    ELSE IF CfgHandlerType = graylogTCP THEN Ret(cfg.TLSPort)
    ELSE Ret(U(12001))

CfgGetGraylogLogLevel == Ret(cfg.LogLevel)

(* Faulty variant: no default for an empty setting. *)
CfgTLSTimeoutNoDefault ==
    LET r == ParseInt32(cfg.TLSTimeoutSeconds)
    IN  IF r.err # "nil"
        THEN Panic("invalid GRAYLOG_TLS_TIMEOUT_SECS could not parse int", Empty)
        ELSE Ret(r.val)

CfgGetGraylogTLSTimeout ==
    LET defaultTimeout == 3
        timeoutString == cfg.TLSTimeoutSeconds
        r == ParseInt32(timeoutString)
    IN  IF timeoutString = Empty THEN Ret(defaultTimeout)
        ELSE IF r.err # "nil"
        THEN Panic("invalid GRAYLOG_TLS_TIMEOUT_SECS could not parse int", Empty)
        ELSE Ret(r.val)

CfgGetGraylogLogEnvName == Ret(cfg.EnvName)

CfgGetGraylogSkipInsecureSkipVerify == Ret(FALSE)

CfgGetIsTestEnv == IF FlagLookup("test.v") THEN Ret(TRUE) ELSE Ret(FALSE)

CfgUseTLS ==
    LET handlerType == cfg.HanlderType
    IN  IF handlerType = Empty THEN Panic("GRAYLOG_HANDLER_TYPE env not set", Empty)
        ELSE IF handlerType = tlsTransport THEN Ret(TRUE)
        ELSE Ret(FALSE)

CfgUseColoredConsolelogs == Ret(FALSE)

----------------------------------------------------------------------------
(* Callers.  A call of a query leaves its outcome in last; a caller also   *)
(* sets and unsets environment variables, assigns the exported fields of   *)
(* the record, and builds a fresh default record.                          *)

Call(impl, query, out) ==
    /\ last' = [impl |-> impl, query |-> query, out |-> out]
    /\ UNCHANGED <<env, cfg, flags>>

SetField(f, v) ==
    /\ cfg' = [cfg EXCEPT ![f] = v]
    /\ last' = NoCall
    /\ UNCHANGED <<env, flags>>

ResetCfg ==
    /\ cfg' = NewDefaultCfgConfig
    /\ last' = NoCall
    /\ UNCHANGED <<env, flags>>

Init ==
    /\ env = InitEnv
    /\ cfg = NewDefaultCfgConfig
    /\ flags = {}
    /\ last = NoCall

----------------------------------------------------------------------------
(* Inputs. *)

MaxLen == 2

RECURSIVE StringsOver(_, _)
(* The strings over alphabet A of length at most n. *)
StringsOver(A, n) ==
    IF n = 0 THEN {Empty}
    ELSE LET shorter == StringsOver(A, n - 1)
         IN  shorter \cup {Append(s, c) : s \in shorter, c \in A}

Selectors ==
    {Empty, tlsTransport, graylogUDP, graylogTCP, <<"f", "o", "o">>}

Str5000 == <<"5", "0", "0", "0">>

Str6000 == <<"6", "0", "0", "0">>

StrUint32Max == <<"4", "2", "9", "4", "9", "6", "7", "2", "9", "5">>

StrUint32Over == <<"4", "2", "9", "4", "9", "6", "7", "2", "9", "6">>

StrAbc == <<"a", "b", "c">>

UDPPortStrings == {Str5000, Str6000, StrAbc, StrUint32Over}

TLSPortStrings == {Str6000, Str5000, Empty, StrUint32Max}

UDPPorts == {U(5000), U(6000), U(12001)}

TLSPorts == {U(6000), U(12001), MaxUint32}

TimeoutStrings ==
    StringsOver({"0", "7", "-", "x"}, MaxLen)
      \cup {<<"1", "0">>, StrThree, StrAbc, <<"-", "5">>, <<"+", "7">>, <<"-">>,
            <<"+", "-", "7">>, <<"-", "0", "0">>,
            <<"2", "1", "4", "7", "4", "8", "3", "6", "4", "7">>,
            <<"2", "1", "4", "7", "4", "8", "3", "6", "4", "8">>,
            <<"-", "2", "1", "4", "7", "4", "8", "3", "6", "4", "8">>,
            <<"-", "2", "1", "4", "7", "4", "8", "3", "6", "4", "9">>,
            <<"0", "0", "0", "0", "0", "0", "0", "0", "0", "0", "1", "2">>}

Names == {Empty, <<"a", "p", "p">>}

LevelStrings == {Empty, <<"4">>, StrAbc}

FlagStrings == {Empty, StrTrue, StrZero, <<"1">>, <<"T", "R", "U", "E">>}

----------------------------------------------------------------------------
(* The transport settings: selector and ports. *)

NextTransport ==
    \/ \E v \in Selectors : Setenv("GRAYLOG_HANDLER_TYPE", v)
    \/ \E v \in UDPPortStrings : Setenv("GRAYLOG_UDP_PORT", v)
    \/ \E v \in TLSPortStrings : Setenv("GRAYLOG_TLS_PORT", v)
    \/ \E k \in {"GRAYLOG_HANDLER_TYPE", "GRAYLOG_UDP_PORT", "GRAYLOG_TLS_PORT"} :
          Unsetenv(k)
    \/ \E v \in Selectors : SetField("HanlderType", v)
    \/ \E v \in UDPPorts : SetField("UDPPort", v)
    \/ \E v \in TLSPorts : SetField("TLSPort", v)
    \/ ResetCfg
    \/ Call("Env", "getGraylogHandlerType", EnvGetGraylogHandlerType)
    \/ Call("Env", "getGraylogPort", EnvGetGraylogPort)
    \/ Call("Env", "useTLS", EnvUseTLS)
    \/ Call("Cfg", "getGraylogHandlerType", CfgGetGraylogHandlerType)
    \/ Call("Cfg", "getGraylogPort", CfgGetGraylogPort)
    \/ Call("Cfg", "useTLS", CfgUseTLS)

SpecTransport == Init /\ [][NextTransport]_vars

(* The TLS timeout. *)

NextTimeout ==
    \/ \E v \in TimeoutStrings : Setenv("GRAYLOG_TLS_TIMEOUT_SECS", v)
    \/ Unsetenv("GRAYLOG_TLS_TIMEOUT_SECS")
    \/ \E v \in TimeoutStrings : SetField("TLSTimeoutSeconds", v)
    \/ ResetCfg
    \/ Call("Env", "getGraylogTLSTimeout", EnvGetGraylogTLSTimeout)
    \/ Call("Cfg", "getGraylogTLSTimeout", CfgGetGraylogTLSTimeout)

SpecTimeout == Init /\ [][NextTimeout]_vars

(* The names, the host and the log level. *)

NextNames ==
    \/ \E k \in {"GRAYLOG_APP_NAME", "GRAYLOG_ENV", "GRAYLOG_HOST"}, v \in Names :
          Setenv(k, v)
    \/ \E v \in LevelStrings : Setenv("GRAYLOG_LOG_LEVEL", v)
    \/ \E k \in {"GRAYLOG_APP_NAME", "GRAYLOG_ENV", "GRAYLOG_HOST",
                 "GRAYLOG_LOG_LEVEL"} : Unsetenv(k)
    \/ \E f \in {"AppName", "EnvName", "Host"}, v \in Names : SetField(f, v)
    \/ \E v \in {U(0)} : SetField("LogLevel", v)
    \/ ResetCfg
    \/ Call("Env", "getGraylogAppName", EnvGetGraylogAppName)
    \/ Call("Env", "getGraylogLogEnvName", EnvGetGraylogLogEnvName)
    \/ Call("Env", "getGraylogHost", EnvGetGraylogHost)
    \/ Call("Env", "getGraylogLogLevel", EnvGetGraylogLogLevel)
    \/ Call("Cfg", "getGraylogAppName", CfgGetGraylogAppName)
    \/ Call("Cfg", "getGraylogLogEnvName", CfgGetGraylogLogEnvName)
    \/ Call("Cfg", "getGraylogHost", CfgGetGraylogHost)
    \/ Call("Cfg", "getGraylogLogLevel", CfgGetGraylogLogLevel)

SpecNames == Init /\ [][NextNames]_vars

(* The boolean settings and the test-run detection. *)

NextFlags ==
    \/ \E k \in {"ENABLE_DATADOG_JSON_FORMATTER", "GRAYLOG_SKIP_TLS_VERIFY",
                 "THEMUSE_ENV_LEVEL"}, v \in FlagStrings : Setenv(k, v)
    \/ \E k \in {"ENABLE_DATADOG_JSON_FORMATTER", "GRAYLOG_SKIP_TLS_VERIFY",
                 "THEMUSE_ENV_LEVEL"} : Unsetenv(k)
    \/ \E v \in BOOLEAN : SetField("EnableJSONFormatter", v)
    \/ ResetCfg
    \/ \E n \in {"test.v", "v"} : FlagVar(n)
    \/ Call("Env", "enableJSONFormatter", EnvEnableJSONFormatter)
    \/ Call("Env", "getGraylogSkipInsecureSkipVerify", EnvGetGraylogSkipInsecureSkipVerify)
    \/ Call("Env", "useColoredConsolelogs", EnvUseColoredConsolelogs)
    \/ Call("Env", "getIsTestEnv", EnvGetIsTestEnv)
    \/ Call("Cfg", "enableJSONFormatter", CfgEnableJSONFormatter)
    \/ Call("Cfg", "getGraylogSkipInsecureSkipVerify", CfgGetGraylogSkipInsecureSkipVerify)
    \/ Call("Cfg", "useColoredConsolelogs", CfgUseColoredConsolelogs)
    \/ Call("Cfg", "getIsTestEnv", CfgGetIsTestEnv)

SpecFlags == Init /\ [][NextFlags]_vars

(* The record alone: every field assigned, every CfgConfig query called. *)

NextRecord ==
    \/ \E v \in BOOLEAN : SetField("EnableJSONFormatter", v)
    \/ \E f \in {"AppName", "EnvName", "Host"}, v \in {Empty, <<"a", "p", "p">>} :
          SetField(f, v)
    \/ \E v \in {tlsTransport, Empty} : SetField("HanlderType", v)
    \/ \E v \in {U(5000)} : SetField("UDPPort", v)
    \/ \E v \in {U(6000)} : SetField("TLSPort", v)
    \/ \E v \in {Empty, <<"1", "0">>, StrAbc} : SetField("TLSTimeoutSeconds", v)
    \/ \E v \in {U(0)} : SetField("LogLevel", v)
    \/ ResetCfg
    \/ Call("Cfg", "enableJSONFormatter", CfgEnableJSONFormatter)
    \/ Call("Cfg", "getGraylogAppName", CfgGetGraylogAppName)
    \/ Call("Cfg", "getGraylogHandlerType", CfgGetGraylogHandlerType)
    \/ Call("Cfg", "getGraylogHost", CfgGetGraylogHost)
    \/ Call("Cfg", "getGraylogPort", CfgGetGraylogPort)
    \/ Call("Cfg", "getGraylogLogLevel", CfgGetGraylogLogLevel)
    \/ Call("Cfg", "getGraylogTLSTimeout", CfgGetGraylogTLSTimeout)
    \/ Call("Cfg", "getGraylogLogEnvName", CfgGetGraylogLogEnvName)
    \/ Call("Cfg", "getGraylogSkipInsecureSkipVerify", CfgGetGraylogSkipInsecureSkipVerify)
    \/ Call("Cfg", "getIsTestEnv", CfgGetIsTestEnv)
    \/ Call("Cfg", "useTLS", CfgUseTLS)
    \/ Call("Cfg", "useColoredConsolelogs", CfgUseColoredConsolelogs)

SpecRecord == Init /\ [][NextRecord]_vars

----------------------------------------------------------------------------
(* Decimal notation, stated on the digits: what a string denotes is given  *)
(* here without the parsers' arithmetic, and numbers are written back to   *)
(* strings to compare.                                                     *)

IsDigits(s) == s # Empty /\ \A i \in 1..Len(s) : s[i] \in Digits

RECURSIVE StripZeros(_)
StripZeros(s) == IF Len(s) > 1 /\ s[1] = "0" THEN StripZeros(Tail(s)) ELSE s

(* a <= b for digit strings of one length *)
DigitsLeq(a, b) ==
    \/ a = b
    \/ \E i \in 1..Len(a) :
          /\ \A j \in 1..(i - 1) : a[j] = b[j]
          /\ DigitVal(a[i]) < DigitVal(b[i])

AtMost(d, limit) ==
    Len(d) < Len(limit) \/ (Len(d) = Len(limit) /\ DigitsLeq(d, limit))

DigitChar(d) == CHOOSE c \in Digits : DigitVal(c) = d

RECURSIVE UDigits(_)
UDigits(u) ==
    IF u.hi = 0 /\ u.lo = 0 THEN Empty
    ELSE LET t == (u.hi % 10) * Half + u.lo
         IN  Append(UDigits([hi |-> u.hi \div 10, lo |-> t \div 10]),
                    DigitChar(t % 10))

UItoa(u) == IF u.hi = 0 /\ u.lo = 0 THEN <<"0">> ELSE UDigits(u)

RECURSIVE NegDigits(_)
NegDigits(n) ==
    IF n = 0 THEN Empty
    ELSE LET d == (10 - (n % 10)) % 10
         IN  Append(NegDigits((n + d) \div 10), DigitChar(d))

Itoa(n) ==
    IF n = 0 THEN <<"0">>
    ELSE IF n < 0 THEN <<"-">> \o NegDigits(n)
    ELSE NegDigits(0 - n)

(* out is what reading the unsigned 32-bit decimal s must give. *)
IsUintOutcome(out, s) ==
    IF IsDigits(s) /\ AtMost(StripZeros(s), StrUint32Max)
    THEN out.kind = "ret" /\ UItoa(out.val) = StripZeros(s)
    ELSE out.kind = "panic"

StrInt32Max == <<"2", "1", "4", "7", "4", "8", "3", "6", "4", "7">>

StrInt32MinAbs == <<"2", "1", "4", "7", "4", "8", "3", "6", "4", "8">>

Signed(s) == s # Empty /\ s[1] \in {"+", "-"}

Magnitude(s) == IF Signed(s) THEN Tail(s) ELSE s

IsDecimalInt(s) == IsDigits(Magnitude(s))

FitsInt32(s) ==
    AtMost(StripZeros(Magnitude(s)),
           IF s[1] = "-" THEN StrInt32MinAbs ELSE StrInt32Max)

Canonical(s) ==
    LET m == StripZeros(Magnitude(s))
    IN  IF s[1] = "-" /\ m # <<"0">> THEN <<"-">> \o m ELSE m

(* out is what a timeout setting s must give, in seconds. *)
IsTimeoutOutcome(out, s) ==
    IF s = Empty THEN out = Ret(3)
    ELSE IF IsDecimalInt(s) /\ FitsInt32(s)
    THEN out.kind = "ret" /\ Itoa(out.val) = Canonical(s)
    ELSE out.kind = "panic"

Called(impl, query) == last.impl = impl /\ last.query = query

(* The settings as they stand in the environment and in the record. *)
Environ(k) == IF k \in DOMAIN env THEN env[k] ELSE Empty

Selector(impl) ==
    IF impl = "Env" THEN Environ("GRAYLOG_HANDLER_TYPE") ELSE cfg.HanlderType

----------------------------------------------------------------------------
(* C1: in both adapters getGraylogHandlerType gives graylog.TCP for the    *)
(* selector "tls", graylog.UDP for "udp", and for every other selector,    *)
(* the empty one included, the same graylog.TCP it gives for "tls".        *)
C1_HandlerTypeMapping ==
    \A impl \in {"Env", "Cfg"} :
        Called(impl, "getGraylogHandlerType") =>
            last.out = Ret(IF Selector(impl) = graylogUDP THEN graylogUDP
                           ELSE graylogTCP)

(* C2: in both adapters, on one backing store, whenever useTLS returns,    *)
(* it returns true exactly when getGraylogHandlerType returns graylog.TCP. *)
C2_UseTLSAgrees ==
    /\ Called("Env", "useTLS") /\ last.out.kind = "ret" =>
          last.out.val = (EnvGetGraylogHandlerType = Ret(graylogTCP))
    /\ Called("Env", "getGraylogHandlerType") /\ EnvUseTLS.kind = "ret" =>
          EnvUseTLS.val = (last.out = Ret(graylogTCP))
    /\ Called("Cfg", "useTLS") /\ last.out.kind = "ret" =>
          last.out.val = (CfgGetGraylogHandlerType = Ret(graylogTCP))
    /\ Called("Cfg", "getGraylogHandlerType") /\ CfgUseTLS.kind = "ret" =>
          CfgUseTLS.val = (last.out = Ret(graylogTCP))

C2_Witness ==
    /\ Called("Env", "useTLS")
    /\ Environ("GRAYLOG_HANDLER_TYPE") = <<"f", "o", "o">>
    /\ last.out = Ret(FALSE)
    /\ EnvGetGraylogHandlerType # Ret(graylogTCP)

(* C3: in both adapters getGraylogPort gives the UDP port setting whenever *)
(* getGraylogHandlerType is UDP and the TLS port setting whenever it is    *)
(* graylog.TCP: the unsigned 32-bit number the environment variable        *)
(* denotes (a panic when it denotes none), or the record's field.          *)
C3_PortFollowsTransport ==
    /\ Called("Env", "getGraylogPort") =>
          /\ EnvGetGraylogHandlerType = Ret(graylogUDP) =>
                IsUintOutcome(last.out, Environ("GRAYLOG_UDP_PORT"))
          /\ EnvGetGraylogHandlerType = Ret(graylogTCP) =>
                IsUintOutcome(last.out, Environ("GRAYLOG_TLS_PORT"))
    /\ Called("Cfg", "getGraylogPort") =>
          /\ CfgGetGraylogHandlerType = Ret(graylogUDP) => last.out = Ret(cfg.UDPPort)
          /\ CfgGetGraylogHandlerType = Ret(graylogTCP) => last.out = Ret(cfg.TLSPort)

C3_Witness ==
    /\ Called("Env", "getGraylogPort")
    /\ Environ("GRAYLOG_HANDLER_TYPE") = graylogUDP
    /\ Environ("GRAYLOG_UDP_PORT") = Str5000
    /\ Environ("GRAYLOG_TLS_PORT") = Str6000
    /\ last.out = Ret(U(5000))

(* C4: in both adapters getGraylogTLSTimeout gives 3 seconds for an unset  *)
(* or empty setting, N seconds for a setting that is the decimal integer   *)
(* N (one that fits 32 bits), and panics for any other non-empty setting.  *)
C4_TLSTimeout ==
    /\ Called("Env", "getGraylogTLSTimeout") =>
          IsTimeoutOutcome(last.out, Environ("GRAYLOG_TLS_TIMEOUT_SECS"))
    /\ Called("Cfg", "getGraylogTLSTimeout") =>
          IsTimeoutOutcome(last.out, cfg.TLSTimeoutSeconds)

C4_Witness ==
    /\ Called("Cfg", "getGraylogTLSTimeout")
    /\ cfg.TLSTimeoutSeconds = <<"1", "0">>
    /\ last.out = Ret(10)
    /\ Environ("GRAYLOG_TLS_TIMEOUT_SECS") = StrAbc
    /\ EnvGetGraylogTLSTimeout.kind = "panic"

(* C5: getGraylogAppName panics when the application name is unset or      *)
(* empty, in EnvConfig and in CfgConfig alike, and never returns the empty *)
(* string.                                                                 *)
C5_AppNameRequired ==
    \A impl \in {"Env", "Cfg"} :
        Called(impl, "getGraylogAppName") =>
            /\ last.out # Ret(Empty)
            /\ (IF impl = "Env" THEN Environ("GRAYLOG_APP_NAME") ELSE cfg.AppName) = Empty
                  => last.out.kind = "panic"

(* C6: for EnvConfig with the variable unset, enableJSONFormatter and      *)
(* getGraylogSkipInsecureSkipVerify return false and useColoredConsolelogs *)
(* returns true.                                                           *)
C6_UnsetDefaults ==
    /\ Called("Env", "enableJSONFormatter")
          /\ "ENABLE_DATADOG_JSON_FORMATTER" \notin DOMAIN env => last.out = Ret(FALSE)
    /\ Called("Env", "getGraylogSkipInsecureSkipVerify")
          /\ "GRAYLOG_SKIP_TLS_VERIFY" \notin DOMAIN env => last.out = Ret(FALSE)
    /\ Called("Env", "useColoredConsolelogs")
          /\ "THEMUSE_ENV_LEVEL" \notin DOMAIN env => last.out = Ret(TRUE)

(* C7: the record NewDefaultCfgConfig builds, unmodified, answers appName  *)
(* "pracing", logEnvName "pracing", handlerType UDP, host "127.0.0.1",     *)
(* port 12001, tlsTimeout 3 seconds, logLevel 4, enableJSONFormatter true  *)
(* and useTLS false; no query panics.                                      *)
C7_DefaultRecord ==
    cfg = NewDefaultCfgConfig /\ last.impl = "Cfg" =>
        /\ last.out.kind = "ret"
        /\ last.query = "getGraylogAppName" =>
              last.out.val = <<"p", "r", "a", "c", "i", "n", "g">>
        /\ last.query = "getGraylogLogEnvName" =>
              last.out.val = <<"p", "r", "a", "c", "i", "n", "g">>
        /\ last.query = "getGraylogHandlerType" => last.out.val = graylogUDP
        /\ last.query = "getGraylogHost" =>
              last.out.val = <<"1", "2", "7", ".", "0", ".", "0", ".", "1">>
        /\ last.query = "getGraylogPort" => UItoa(last.out.val) = <<"1", "2", "0", "0", "1">>
        /\ last.query = "getGraylogTLSTimeout" => last.out.val = 3
        /\ last.query = "getGraylogLogLevel" => UItoa(last.out.val) = <<"4">>
        /\ last.query = "enableJSONFormatter" => last.out.val = TRUE
        /\ last.query = "useTLS" => last.out.val = FALSE

C7_Witness ==
    /\ cfg = NewDefaultCfgConfig
    /\ Called("Cfg", "getGraylogPort")
    /\ last.out = Ret(U(12001))

(* C8: EnvConfig caches nothing: whatever was set, unset and queried       *)
(* before, the outcome of a query is a function of the environment as it   *)
(* stands at the call.                                                     *)
C8_EnvOutcome(query) ==
    LET sel == Environ("GRAYLOG_HANDLER_TYPE")
    IN  CASE query = "getGraylogHandlerType" ->
               last.out = Ret(IF sel = tlsTransport THEN graylogTCP
                              ELSE IF sel = graylogUDP THEN graylogUDP
                              ELSE tlsTransport)
          [] query = "useTLS" ->
               IF sel = Empty THEN last.out.kind = "panic"
               ELSE last.out = Ret(sel = tlsTransport)
          [] query = "getGraylogPort" ->
               IF sel = graylogUDP
               THEN IsUintOutcome(last.out, Environ("GRAYLOG_UDP_PORT"))
               ELSE IF sel = tlsTransport
               THEN IsUintOutcome(last.out, Environ("GRAYLOG_TLS_PORT"))
               ELSE IsUintOutcome(last.out, <<"1", "2", "2", "0", "1">>)

SameSettings ==
    /\ Environ("GRAYLOG_HANDLER_TYPE") = cfg.HanlderType
    /\ Environ("GRAYLOG_UDP_PORT") = UItoa(cfg.UDPPort)
    /\ Environ("GRAYLOG_TLS_PORT") = UItoa(cfg.TLSPort)

SameKind(a, b) == a.kind = b.kind /\ (a.kind = "ret" => a = b)

C9_AdaptersAgree ==
    SameSettings /\ last.impl \in {"Env", "Cfg"} =>
        /\ SameKind(EnvGetGraylogHandlerType, CfgGetGraylogHandlerType)
        /\ SameKind(EnvGetGraylogPort, CfgGetGraylogPort)
        /\ SameKind(EnvUseTLS, CfgUseTLS)
        /\ Environ("GRAYLOG_TLS_TIMEOUT_SECS") = cfg.TLSTimeoutSeconds =>
              SameKind(EnvGetGraylogTLSTimeout, CfgGetGraylogTLSTimeout)

(* C10: the fallback of CfgConfig.getGraylogPort is never taken: for every *)
(* HanlderType getGraylogHandlerType is graylog.UDP or graylog.TCP, and    *)
(* getGraylogPort returns UDPPort or TLSPort.                              *)
C10_FallbackUnreachable ==
    /\ Called("Cfg", "getGraylogHandlerType") =>
          last.out \in {Ret(graylogUDP), Ret(graylogTCP)}
    /\ Called("Cfg", "getGraylogPort") =>
          last.out \in {Ret(cfg.UDPPort), Ret(cfg.TLSPort)}

====
